---- MODULE Spec2Model ----
(***************************************************************************)
(* Model of src/index.js: a single-shot pipeline                           *)
(*   main: resetCollection -> ingest(url) -> chat(question)                *)
(* Every await of the source is one step of the single thread of control;  *)
(* an action is the awaited call together with the synchronous code that   *)
(* runs up to the next await.  External services (browser, embedding API,  *)
(* vector store, generative model) either return or reject.                *)
(***************************************************************************)
EXTENDS Integers, Sequences, FiniteSets, TLC

VARIABLES
    pc,                \* position of the single thread of control
    page,              \* the web page served at the url (input)
    prior,             \* the reserved collection as the run found it (input)
    store,             \* the reserved collection in the vector store
    browser,           \* "none" | "open" | "closed"
    metaDescription,   \* scrapeWebpage local
    pageTitle,         \* scrapeWebpage local
    bodyText,          \* scrapeWebpage local
    scraped,           \* value returned by scrapeWebpage, destructured in ingest
    bodyEmbedding,     \* ingest local
    questionEmbedding, \* chat local
    queryResult,       \* chat local
    prompt,            \* chat local
    delOutcome,        \* outcome of chromaClient.deleteCollection
    addOutcome,        \* outcome of collection.add
    embedCalls,        \* texts sent to embedContent with the vectors returned
    genCalls,          \* prompts sent to generateContent
    calls,             \* external calls in the order they were made
    log,               \* console output, one tag per line
    steps,             \* start/end of main's top-level steps
    thrown             \* labels at which an exception was raised

vars == <<pc, page, prior, store, browser, metaDescription, pageTitle, bodyText,
          scraped, bodyEmbedding, questionEmbedding, queryResult, prompt,
          delOutcome, addOutcome, embedCalls, genCalls, calls, log, steps,
          thrown>>

----------------------------------------------------------------------------
(* Bounds of the model *)

\* number of documents a collection left by an earlier run may hold
MaxPriorDocs == 1
\* length of the long page body and of the longest earlier document
LongLen == 5000

(* Program constants *)

\* body.slice(0, 3000)
ContextLimit == 3000
URL == "http://books.toscrape.com/"

QUESTION ==
    <<"G","i","v","e"," ","m","e"," ","5","5","0"," ","w","o","r","d","s",
      " ","o","n"," ","t","h","i","s"," ","s","i","t","e","?">>

None == [none |-> TRUE]
NullMeta == [null |-> TRUE]

----------------------------------------------------------------------------
(* Text *)

Alphabet == <<"a", "b", "c", "d", "e", "f", "g">>

Min(a, b) == IF a < b THEN a ELSE b

\* a text of n characters with single spaces inside and none at the ends
MkBody(n) ==
    [i \in 1..n |->
        IF i % 10 = 0 /\ i < n THEN " " ELSE Alphabet[(i % 7) + 1]]

IsWs(c) == c \in {" ", "\t", "\n"}

\* String.prototype.replace(/\s+/g, ' ')
RECURSIVE CollapseWs(_)
CollapseWs(s) ==
    IF Len(s) <= 1
    THEN [i \in 1..Len(s) |-> IF IsWs(s[i]) THEN " " ELSE s[i]]
    ELSE LET h == Len(s) \div 2
             L == CollapseWs(SubSeq(s, 1, h))
             R == CollapseWs(SubSeq(s, h + 1, Len(s)))
         IN  IF L[Len(L)] = " " /\ R[1] = " " THEN L \o Tail(R) ELSE L \o R

\* String.prototype.trim()
Trim(s) ==
    LET n  == Len(s)
        lo == CHOOSE i \in 1..(n + 1) :
                  /\ (i = n + 1 \/ ~IsWs(s[i]))
                  /\ \A j \in 1..(i - 1) : IsWs(s[j])
        hi == IF lo = n + 1 THEN n
              ELSE CHOOSE i \in lo..n :
                       /\ ~IsWs(s[i])
                       /\ \A j \in (i + 1)..n : IsWs(s[j])
    IN  SubSeq(s, lo, hi)

\* el => el.innerText.replace(/\s+/g, ' ').trim()
NormalizeBody(innerText) == Trim(CollapseWs(innerText))

\* String.prototype.slice(start, end) for 0 <= start
Slice(s, start, end) ==
    LET from == Min(start, Len(s))
        to   == Min(end, Len(s))
    IN  SubSeq(s, from + 1, to)

ContextOffByOne(body) == Slice(body, 0, ContextLimit + 1)

\* body.slice(0, 3000)
Context(body) == Slice(body, 0, ContextLimit)

\* the template literal: its three interpolated values
Prompt(title, context, question) ==
    [title |-> title, content |-> context, question |-> question]

----------------------------------------------------------------------------
(* Inputs *)

RawEmpty == <<" ", "\n">>
RawShort == <<" ", "a", " ", "\t", "b", "\n", "\n", "c", " ">>
RawLong  == <<"\n", " ">> \o
            [i \in 1..LongLen |->
                IF i % 10 = 0 /\ i < LongLen THEN " " ELSE Alphabet[(i % 7) + 1]]
            \o <<" ", " ">>

Pages ==
    [title : {"All products"}, hasMeta : BOOLEAN, meta : {"Books to scrape"},
     innerText : {RawEmpty, RawShort, RawLong}]

Vectors == {<<0>>, <<1>>}

Metadata(title, meta, body) ==
    [title |-> title, metaDescription |-> meta, body |-> body]

Doc(id, embedding, metadata) ==
    [id |-> id, embedding |-> embedding, metadata |-> metadata]

\* documents an earlier run, or another writer, may have left
PriorDocs ==
    { Doc(URL, <<0>>, Metadata("Old title", "", NormalizeBody(RawShort))),
      Doc("http://a.test/", <<1>>, Metadata("A", "", MkBody(ContextLimit))),
      Doc("http://b.test/", <<0>>, Metadata("B", "", MkBody(ContextLimit + 1))),
      Doc("http://c.test/", <<1>>, Metadata("C", "", MkBody(LongLen))),
      Doc("http://d.test/", <<1>>, NullMeta) }

Absent == [exists |-> FALSE, docs |-> {}]

Collection(docs) == [exists |-> TRUE, docs |-> docs]

PriorStores ==
    {Absent} \cup
    { Collection(D) : D \in { S \in SUBSET PriorDocs :
          /\ Cardinality(S) <= MaxPriorDocs
          /\ \A x, y \in S : x.id = y.id => x = y } }

----------------------------------------------------------------------------
(* The vector store *)

\* chromaClient.deleteCollection: rejects when the collection does not exist,
\* and may reject for any other cause (network, server)
DeleteOutcomes(s) ==
    IF s.exists THEN {"ok", "error"} ELSE {"not_found", "error"}

\* chromaClient.getOrCreateCollection
GetOrCreate(s) == IF s.exists THEN s ELSE Collection({})

InsertRecordTitleAsId(embedding, url, metadata) ==
    Doc(metadata.title, embedding, metadata)

\* the record collection.add({ids: [url], embeddings: [embedding],
\* metadatas: [metadata]}) writes
InsertRecord(embedding, url, metadata) == Doc(url, embedding, metadata)

\* collection.add: an id already in the collection is not overwritten; the
\* store either ignores the record or rejects the call
AddOutcomes(s, id) ==
    IF \E d \in s.docs : d.id = id
    THEN {"ignored", "duplicate_error", "error"}
    ELSE {"ok", "error"}

Dist(a, b) == (a[1] - b[1]) * (a[1] - b[1])

Nearest(docs, q) ==
    { d \in docs : \A e \in docs : Dist(d.embedding, q) <= Dist(e.embedding, q) }

\* collection.query({nResults: 1, queryEmbeddings: [q]}): one list of
\* metadata entries per query embedding; equidistant documents may come in
\* either order
QueryResults(docs, q) ==
    IF docs = {}
    THEN { [metadatas |-> << <<>> >>], [metadatas |-> <<>>] }
    ELSE { [metadatas |-> << <<d.metadata>> >>] : d \in Nearest(docs, q) }

----------------------------------------------------------------------------
(* Control *)

ScrapeLabels ==
    {"scrape_launch", "scrape_newPage", "scrape_setUserAgent", "scrape_goto",
     "scrape_meta", "scrape_title", "scrape_body", "scrape_close"}

IngestLabels == ScrapeLabels \cup {"ingest_embed", "insert_getOrCreate", "insert_add"}

ChatLabels ==
    {"chat_embed", "chat_getOrCreate", "chat_query", "chat_generate",
     "chat_response"}

HandlerMainOnly(at) == "main_catch"

HandlerNoMainTry(at) == IF at \in ChatLabels THEN "chat_catch" ELSE "unhandled"

\* the innermost try block around the statement at a label: chat wraps its
\* whole body, main wraps everything else
Handler(at) == IF at \in ChatLabels THEN "chat_catch" ELSE "main_catch"

ResetResumeRethrow(outcome) ==
    IF outcome = "not_found" THEN "scrape_launch" ELSE "main_catch"

\* where control goes when resetCollection's deleteCollection settles: the
\* empty catch block swallows every rejection
ResetResume(outcome) == "scrape_launch"

MetaResumeAbort(found) == IF found THEN "scrape_title" ELSE "main_catch"

\* where control goes when the meta description lookup settles: the catch
\* block logs and falls through
MetaResume(found) == "scrape_title"

NoEntriesOuterOnly(res) == Len(res.metadatas) = 0

\* !queryResult.metadatas[0]?.length
NoEntries(res) ==
    \/ Len(res.metadatas) = 0
    \/ Len(res.metadatas[1]) = 0

\* queryResult.metadatas[0][0]
FirstEntry(res) ==
    IF Len(res.metadatas) = 0 \/ Len(res.metadatas[1]) = 0
    THEN NullMeta
    ELSE res.metadatas[1][1]

Throw(at) ==
    /\ pc' = Handler(at)
    /\ thrown' = Append(thrown, at)

Call(name) == calls' = Append(calls, name)

inputs   == <<page, prior>>
locals   == <<metaDescription, pageTitle, bodyText>>
chatVars == <<questionEmbedding, queryResult, prompt, genCalls>>

----------------------------------------------------------------------------
Init ==
    /\ pc = "main_start"
    /\ page \in Pages
    /\ prior \in PriorStores
    /\ store = prior
    /\ browser = "none"
    /\ metaDescription = "undefined"
    /\ pageTitle = "undefined"
    /\ bodyText = <<"undefined">>
    /\ scraped = None
    /\ bodyEmbedding = <<>>
    /\ questionEmbedding = <<>>
    /\ queryResult = None
    /\ prompt = None
    /\ delOutcome = "pending"
    /\ addOutcome = "pending"
    /\ embedCalls = <<>>
    /\ genCalls = <<>>
    /\ calls = <<>>
    /\ log = <<>>
    /\ steps = <<>>
    /\ thrown = <<>>

\* main(): enters the try block and calls resetCollection
MainStart ==
    /\ pc = "main_start"
    /\ pc' = "reset_delete"
    /\ steps' = Append(steps, "reset_start")
    /\ UNCHANGED <<inputs, store, browser, locals, scraped, bodyEmbedding,
                   chatVars, delOutcome, addOutcome, embedCalls, calls, log,
                   thrown>>

\* resetCollection(): await deleteCollection, then main calls ingest
ResetDelete ==
    /\ pc = "reset_delete"
    /\ \E outcome \in DeleteOutcomes(store) :
        /\ delOutcome' = outcome
        /\ Call("deleteCollection")
        /\ store' = IF outcome = "ok" THEN Absent ELSE store
        /\ log' = IF outcome = "ok" THEN Append(log, "collection_reset") ELSE log
        /\ pc' = IF outcome = "ok" THEN "scrape_launch" ELSE ResetResume(outcome)
        /\ thrown' = IF outcome = "ok" THEN thrown ELSE Append(thrown, "reset_delete")
        /\ steps' = IF pc' = "scrape_launch"
                    THEN steps \o <<"reset_end", "ingest_start">>
                    ELSE steps
    /\ UNCHANGED <<inputs, browser, locals, scraped, bodyEmbedding, chatVars,
                   addOutcome, embedCalls>>

\* scrapeWebpage: await puppeteer.launch(...)
ScrapeLaunch ==
    /\ pc = "scrape_launch"
    /\ Call("launch")
    /\ \E ok \in BOOLEAN :
        IF ok
        THEN /\ browser' = "open"
             /\ pc' = "scrape_newPage"
             /\ UNCHANGED thrown
        ELSE /\ Throw("scrape_launch")
             /\ UNCHANGED browser
    /\ UNCHANGED <<inputs, store, locals, scraped, bodyEmbedding, chatVars,
                   delOutcome, addOutcome, embedCalls, log, steps>>

\* scrapeWebpage: await browser.newPage()
ScrapeNewPage ==
    /\ pc = "scrape_newPage"
    /\ Call("newPage")
    /\ \E ok \in BOOLEAN :
        IF ok
        THEN pc' = "scrape_setUserAgent" /\ UNCHANGED thrown
        ELSE Throw("scrape_newPage")
    /\ UNCHANGED <<inputs, store, browser, locals, scraped, bodyEmbedding,
                   chatVars, delOutcome, addOutcome, embedCalls, log, steps>>

\* scrapeWebpage: await page.setUserAgent(...)
ScrapeSetUserAgent ==
    /\ pc = "scrape_setUserAgent"
    /\ Call("setUserAgent")
    /\ \E ok \in BOOLEAN :
        IF ok
        THEN pc' = "scrape_goto" /\ UNCHANGED thrown
        ELSE Throw("scrape_setUserAgent")
    /\ UNCHANGED <<inputs, store, browser, locals, scraped, bodyEmbedding,
                   chatVars, delOutcome, addOutcome, embedCalls, log, steps>>

\* scrapeWebpage: await page.goto(url, ...), then let metaDescription = ''
ScrapeGoto ==
    /\ pc = "scrape_goto"
    /\ Call("goto")
    /\ \E ok \in BOOLEAN :
        IF ok
        THEN /\ pc' = "scrape_meta"
             /\ metaDescription' = ""
             /\ UNCHANGED thrown
        ELSE /\ Throw("scrape_goto")
             /\ UNCHANGED metaDescription
    /\ UNCHANGED <<inputs, store, browser, pageTitle, bodyText, scraped,
                   bodyEmbedding, chatVars, delOutcome, addOutcome, embedCalls,
                   log, steps>>

\* scrapeWebpage: try { metaDescription = await page.$eval('meta...') } catch
ScrapeMeta ==
    /\ pc = "scrape_meta"
    /\ Call("eval_meta")
    /\ \E found \in {page.hasMeta, FALSE} :
        IF found
        THEN /\ metaDescription' = page.meta
             /\ pc' = "scrape_title"
             /\ UNCHANGED <<log, thrown>>
        ELSE /\ pc' = MetaResume(found)
             /\ thrown' = Append(thrown, "scrape_meta")
             /\ log' = IF pc' = "scrape_title"
                       THEN Append(log, "meta_not_found")
                       ELSE log
             /\ UNCHANGED metaDescription
    /\ UNCHANGED <<inputs, store, browser, pageTitle, bodyText, scraped,
                   bodyEmbedding, chatVars, delOutcome, addOutcome, embedCalls,
                   steps>>

\* scrapeWebpage: const pageTitle = await page.title()
ScrapeTitle ==
    /\ pc = "scrape_title"
    /\ Call("title")
    /\ \E ok \in BOOLEAN :
        IF ok
        THEN /\ pageTitle' = page.title
             /\ pc' = "scrape_body"
             /\ UNCHANGED thrown
        ELSE /\ Throw("scrape_title")
             /\ UNCHANGED pageTitle
    /\ UNCHANGED <<inputs, store, browser, metaDescription, bodyText, scraped,
                   bodyEmbedding, chatVars, delOutcome, addOutcome, embedCalls,
                   log, steps>>

\* scrapeWebpage: const bodyText = await page.$eval('body', ...)
ScrapeBody ==
    /\ pc = "scrape_body"
    /\ Call("eval_body")
    /\ \E ok \in BOOLEAN :
        IF ok
        THEN /\ bodyText' = NormalizeBody(page.innerText)
             /\ pc' = "scrape_close"
             /\ UNCHANGED thrown
        ELSE /\ Throw("scrape_body")
             /\ UNCHANGED bodyText
    /\ UNCHANGED <<inputs, store, browser, metaDescription, pageTitle, scraped,
                   bodyEmbedding, chatVars, delOutcome, addOutcome, embedCalls,
                   log, steps>>

\* scrapeWebpage: await browser.close(); return {...}; ingest destructures
\* the result, logs the title and calls generateVectorEmbeddings
ScrapeClose ==
    /\ pc = "scrape_close"
    /\ Call("close")
    /\ \E ok \in BOOLEAN :
        IF ok
        THEN /\ browser' = "closed"
             /\ scraped' = Metadata(pageTitle, metaDescription, bodyText)
             /\ log' = Append(log, "scraped_title")
             /\ pc' = "ingest_embed"
             /\ UNCHANGED thrown
        ELSE /\ Throw("scrape_close")
             /\ UNCHANGED <<browser, scraped, log>>
    /\ UNCHANGED <<inputs, store, locals, bodyEmbedding, chatVars, delOutcome,
                   addOutcome, embedCalls, steps>>

\* ingest: const bodyEmbedding = await generateVectorEmbeddings({text: body})
IngestEmbed ==
    /\ pc = "ingest_embed"
    /\ Call("embedContent")
    /\ \/ \E v \in Vectors :
            /\ embedCalls' = Append(embedCalls, [text |-> scraped.body, result |-> v])
            /\ bodyEmbedding' = v
            /\ pc' = "insert_getOrCreate"
            /\ UNCHANGED thrown
       \/ /\ embedCalls' = Append(embedCalls, [text |-> scraped.body, result |-> <<>>])
          /\ Throw("ingest_embed")
          /\ UNCHANGED bodyEmbedding
    /\ UNCHANGED <<inputs, store, browser, locals, scraped, chatVars,
                   delOutcome, addOutcome, log, steps>>

\* insertIntoDB: await chromaClient.getOrCreateCollection(...)
InsertGetOrCreate ==
    /\ pc = "insert_getOrCreate"
    /\ Call("getOrCreateCollection")
    /\ \E ok \in BOOLEAN :
        IF ok
        THEN /\ store' = GetOrCreate(store)
             /\ pc' = "insert_add"
             /\ UNCHANGED thrown
        ELSE /\ Throw("insert_getOrCreate")
             /\ UNCHANGED store
    /\ UNCHANGED <<inputs, browser, locals, scraped, bodyEmbedding, chatVars,
                   delOutcome, addOutcome, embedCalls, log, steps>>

\* insertIntoDB: await collection.add(...); ingest logs success and returns;
\* main calls chat
InsertAdd ==
    /\ pc = "insert_add"
    /\ Call("add")
    /\ LET rec == InsertRecord(bodyEmbedding, URL,
                      Metadata(scraped.title, scraped.metaDescription, scraped.body))
       IN  \E outcome \in AddOutcomes(store, rec.id) :
            /\ addOutcome' = outcome
            /\ store' = IF outcome = "ok"
                        THEN [store EXCEPT !.docs = @ \cup {rec}]
                        ELSE store
            /\ IF outcome \in {"ok", "ignored"}
               THEN /\ log' = Append(log, "ingested")
                    /\ steps' = steps \o <<"ingest_end", "chat_start">>
                    /\ pc' = "chat_embed"
                    /\ UNCHANGED thrown
               ELSE /\ Throw("insert_add")
                    /\ UNCHANGED <<log, steps>>
    /\ UNCHANGED <<inputs, browser, locals, scraped, bodyEmbedding, chatVars,
                   delOutcome, embedCalls>>

\* chat: const questionEmbedding = await generateVectorEmbeddings({text: question})
ChatEmbed ==
    /\ pc = "chat_embed"
    /\ Call("embedContent")
    /\ \/ \E v \in Vectors :
            /\ embedCalls' = Append(embedCalls, [text |-> QUESTION, result |-> v])
            /\ questionEmbedding' = v
            /\ pc' = "chat_getOrCreate"
            /\ UNCHANGED thrown
       \/ /\ embedCalls' = Append(embedCalls, [text |-> QUESTION, result |-> <<>>])
          /\ Throw("chat_embed")
          /\ UNCHANGED questionEmbedding
    /\ UNCHANGED <<inputs, store, browser, locals, scraped, bodyEmbedding,
                   queryResult, prompt, genCalls, delOutcome, addOutcome, log,
                   steps>>

\* chat: const collection = await chromaClient.getOrCreateCollection(...)
ChatGetOrCreate ==
    /\ pc = "chat_getOrCreate"
    /\ Call("getOrCreateCollection")
    /\ \E ok \in BOOLEAN :
        IF ok
        THEN /\ store' = GetOrCreate(store)
             /\ pc' = "chat_query"
             /\ UNCHANGED thrown
        ELSE /\ Throw("chat_getOrCreate")
             /\ UNCHANGED store
    /\ UNCHANGED <<inputs, browser, locals, scraped, bodyEmbedding, chatVars,
                   delOutcome, addOutcome, embedCalls, log, steps>>

\* chat: await collection.query(...), the emptiness test, the destructuring,
\* the truncation and the prompt, up to the call of generateContent
ChatQuery ==
    /\ pc = "chat_query"
    /\ Call("query")
    /\ \/ /\ Throw("chat_query")
          /\ UNCHANGED <<queryResult, prompt, log, steps>>
       \/ \E res \in QueryResults(store.docs, questionEmbedding) :
            /\ queryResult' = res
            /\ IF NoEntries(res)
               THEN /\ log' = Append(log, "no_context")
                    /\ steps' = Append(steps, "chat_end")
                    /\ pc' = "done"
                    /\ UNCHANGED <<prompt, thrown>>
               ELSE IF FirstEntry(res) = NullMeta
               THEN /\ Throw("chat_query")
                    /\ UNCHANGED <<prompt, log, steps>>
               ELSE /\ prompt' = Prompt(FirstEntry(res).title,
                                        Context(FirstEntry(res).body), QUESTION)
                    /\ pc' = "chat_generate"
                    /\ UNCHANGED <<log, steps, thrown>>
    /\ UNCHANGED <<inputs, store, browser, locals, scraped, bodyEmbedding,
                   questionEmbedding, genCalls, delOutcome, addOutcome,
                   embedCalls>>

\* chat: const result = await model.generateContent(prompt)
ChatGenerate ==
    /\ pc = "chat_generate"
    /\ Call("generateContent")
    /\ genCalls' = Append(genCalls, prompt)
    /\ \E ok \in BOOLEAN :
        IF ok
        THEN pc' = "chat_response" /\ UNCHANGED thrown
        ELSE Throw("chat_generate")
    /\ UNCHANGED <<inputs, store, browser, locals, scraped, bodyEmbedding,
                   questionEmbedding, queryResult, prompt, delOutcome,
                   addOutcome, embedCalls, log, steps>>

\* chat: await result.response; console.log(response.text()); chat returns
\* and main leaves its try block
ChatResponse ==
    /\ pc = "chat_response"
    /\ \E ok \in BOOLEAN :
        IF ok
        THEN /\ log' = Append(log, "answer")
             /\ steps' = Append(steps, "chat_end")
             /\ pc' = "done"
             /\ UNCHANGED thrown
        ELSE /\ Throw("chat_response")
             /\ UNCHANGED <<log, steps>>
    /\ UNCHANGED <<inputs, store, browser, locals, scraped, bodyEmbedding,
                   chatVars, delOutcome, addOutcome, embedCalls, calls>>

\* chat: catch (error) { console.error('Chat Error:', error) }
ChatCatch ==
    /\ pc = "chat_catch"
    /\ log' = Append(log, "chat_error")
    /\ steps' = Append(steps, "chat_end")
    /\ pc' = "done"
    /\ UNCHANGED <<inputs, store, browser, locals, scraped, bodyEmbedding,
                   chatVars, delOutcome, addOutcome, embedCalls, calls, thrown>>

\* main: catch (error) { console.error('Main Error:', error.message) }
MainCatch ==
    /\ pc = "main_catch"
    /\ log' = Append(log, "main_error")
    /\ pc' = "done"
    /\ UNCHANGED <<inputs, store, browser, locals, scraped, bodyEmbedding,
                   chatVars, delOutcome, addOutcome, embedCalls, calls, steps,
                   thrown>>

Next ==
    \/ MainStart
    \/ ResetDelete
    \/ ScrapeLaunch
    \/ ScrapeNewPage
    \/ ScrapeSetUserAgent
    \/ ScrapeGoto
    \/ ScrapeMeta
    \/ ScrapeTitle
    \/ ScrapeBody
    \/ ScrapeClose
    \/ IngestEmbed
    \/ InsertGetOrCreate
    \/ InsertAdd
    \/ ChatEmbed
    \/ ChatGetOrCreate
    \/ ChatQuery
    \/ ChatGenerate
    \/ ChatResponse
    \/ ChatCatch
    \/ MainCatch

Spec == Init /\ [][Next]_vars

\* chat(question) called on its own, whatever the reserved collection holds
InitChat ==
    /\ pc = "chat_embed"
    /\ page \in { p \in Pages : p.hasMeta /\ p.innerText = RawShort }
    /\ prior \in PriorStores
    /\ store = prior
    /\ browser = "none"
    /\ metaDescription = "undefined"
    /\ pageTitle = "undefined"
    /\ bodyText = <<"undefined">>
    /\ scraped = None
    /\ bodyEmbedding = <<>>
    /\ questionEmbedding = <<>>
    /\ queryResult = None
    /\ prompt = None
    /\ delOutcome = "pending"
    /\ addOutcome = "pending"
    /\ embedCalls = <<>>
    /\ genCalls = <<>>
    /\ calls = <<>>
    /\ log = <<>>
    /\ steps = <<"chat_start">>
    /\ thrown = <<>>

NextChat ==
    \/ ChatEmbed
    \/ ChatGetOrCreate
    \/ ChatQuery
    \/ ChatGenerate
    \/ ChatResponse
    \/ ChatCatch

SpecChat == InitChat /\ [][NextChat]_vars


----------------------------------------------------------------------------
(* Properties *)

Range(s) == { s[i] : i \in DOMAIN s }

Count(s, x) == Cardinality({ i \in DOMAIN s : s[i] = x })

IsPrefix(s, t) == Len(s) <= Len(t) /\ \A i \in DOMAIN s : s[i] = t[i]

Last(s) == s[Len(s)]

FullOrder ==
    <<"reset_start", "reset_end", "ingest_start", "ingest_end", "chat_start",
      "chat_end">>

IngestFailed == \E i \in DOMAIN thrown : thrown[i] \in IngestLabels \ {"scrape_meta"}

FetchOrEmbedFailed ==
    \E i \in DOMAIN thrown :
        thrown[i] \in (ScrapeLabels \ {"scrape_meta"}) \cup {"ingest_embed"}

ChatFailed == \E i \in DOMAIN thrown : thrown[i] \in ChatLabels

\* the query result holds no metadata entry for the one query embedding
EmptyResult(res) == \A i \in DOMAIN res.metadatas : i = 1 => res.metadatas[i] = <<>>

\* records in the collection that the run did not find there
Added == store.docs \ prior.docs

\* C1: once the browser has been launched, every state in which the fetch
\* has ended (returned or propagated a failure) has the browser closed.
C1_BrowserReleased ==
    (pc \notin ScrapeLabels /\ browser # "none") => browser = "closed"

\* C2: main's steps run in the order resetCollection, ingest, chat, each
\* started after the previous one completed; a failure in ingest is caught
\* once by main's handler ('Main Error' logged once), chat is never started,
\* and main completes.
C2_MainOrderAndIngestFailure ==
    /\ IsPrefix(steps, FullOrder)
    /\ pc \in ChatLabels \cup {"chat_catch"} => Last(steps) = "chat_start"
    /\ IngestFailed =>
        /\ pc \in {"main_catch", "done"}
        /\ "chat_start" \notin Range(steps)
        /\ \A i \in DOMAIN calls : calls[i] \notin {"query", "generateContent"}
        /\ Count(log, "main_error") = (IF pc = "done" THEN 1 ELSE 0)
        /\ "chat_error" \notin Range(log)

C2_Witness ==
    /\ pc = "done"
    /\ IngestFailed
    /\ Count(log, "main_error") = 1

\* C3: a failure raised inside chat, at any of its external calls or while
\* destructuring the query result, is logged as 'Chat Error' by chat itself;
\* chat returns normally and main's handler is never entered.
C3_ChatContainsFailures ==
    ChatFailed =>
        /\ pc \in {"chat_catch", "done"}
        /\ "main_error" \notin Range(log)
        /\ Count(log, "chat_error") = (IF pc = "done" THEN 1 ELSE 0)
        /\ pc = "done" => Last(steps) = "chat_end"

C3_Witness ==
    /\ pc = "done"
    /\ ChatFailed
    /\ "chat_error" \in Range(log)
    /\ Last(calls) = "query"
    /\ queryResult # None

\* C4: when the query returns no metadata entries, chat reports 'No relevant
\* context found' and stops: generateContent is never called, no answer is
\* printed, and neither 'Chat Error' nor 'Main Error' is logged.
C4_NoContextStops ==
    (queryResult # None /\ EmptyResult(queryResult)) =>
        /\ pc = "done"
        /\ Last(log) = "no_context"
        /\ Last(steps) = "chat_end"
        /\ genCalls = <<>>
        /\ "generateContent" \notin Range(calls)
        /\ Range(log) \cap {"answer", "chat_error", "main_error"} = {}
        /\ \A i \in DOMAIN thrown : thrown[i] \notin ChatLabels

C4_Witness ==
    /\ queryResult # None
    /\ queryResult.metadatas = << <<>> >>
    /\ Last(log) = "no_context"

C6_ResetThenQueryEmpty ==
    pc = "scrape_launch" =>
        \A q \in Vectors :
            \A r \in QueryResults(GetOrCreate(store).docs, q) : EmptyResult(r)

\* C7: ingest fetches, then embeds the scraped body, then inserts once: a
\* record is added only if fetch and embedding succeeded, at most one record
\* is added per run, and it has id = url, the embedding returned for the
\* scraped body, and metadata {title, metaDescription, body} as scraped.
C7_IngestInsertsOneRecord ==
    /\ Cardinality(Added) <= 1
    /\ Count(calls, "add") <= 1
    /\ FetchOrEmbedFailed => (Added = {} /\ "add" \notin Range(calls))
    /\ \A r \in Added :
        /\ scraped # None
        /\ r.id = URL
        /\ r.metadata = [title |-> scraped.title,
                         metaDescription |-> scraped.metaDescription,
                         body |-> scraped.body]
        /\ embedCalls # <<>>
        /\ embedCalls[1].text = scraped.body
        /\ embedCalls[1].result = r.embedding
        /\ \E c, e, a \in DOMAIN calls :
            /\ c < e /\ e < a
            /\ calls[c] = "close"
            /\ calls[e] = "embedContent"
            /\ calls[a] = "add"

C7_Witness ==
    /\ Added # {}
    /\ addOutcome = "ok"

\* C8: the context in the prompt sent to the generative model is exactly the
\* first 3000 characters of the retrieved body (the whole body when it has
\* at most 3000), and the prompt carries the retrieved title and the
\* question.
C8_ContextIsFirst3000 ==
    \A k \in DOMAIN genCalls :
        LET p == genCalls[k]
            m == queryResult.metadatas[1][1]
        IN  /\ p.title = m.title
            /\ p.question = QUESTION
            /\ Len(p.content) = Min(Len(m.body), 3000)
            /\ \A j \in 1..Len(p.content) : p.content[j] = m.body[j]

C8_Witness ==
    /\ genCalls # <<>>
    /\ Len(queryResult.metadatas[1][1].body) = LongLen
    /\ Len(genCalls[1].content) = ContextLimit

\* C9: when the page has no meta description element, the failed lookup is
\* recovered inside scrapeWebpage: control continues with the title,
\* metaDescription is the empty string, and the value returned carries the
\* page's title and the extracted body.
C9_MissingMetaIsEmptyString ==
    /\ (calls # <<>> /\ Last(calls) = "eval_meta") => pc = "scrape_title"
    /\ (~page.hasMeta /\ "eval_meta" \in Range(calls)) =>
        /\ metaDescription = ""
        /\ Count(log, "meta_not_found") = 1
    /\ (~page.hasMeta /\ scraped # None) =>
        /\ scraped.metaDescription = ""
        /\ scraped.title = page.title
        /\ scraped.body = bodyText
        /\ \E m, t, b \in DOMAIN calls :
            /\ m < t /\ t < b
            /\ calls[m] = "eval_meta"
            /\ calls[t] = "title"
            /\ calls[b] = "eval_body"

C9_Witness ==
    /\ ~page.hasMeta
    /\ scraped # None
    /\ "meta_not_found" \in Range(log)

\* C10: after insertIntoDB has returned for id U, a top-1 query with the
\* embedding passed to that insert returns the metadata passed to it.
C10_QueryReturnsInserted ==
    pc = "chat_embed" =>
        \A r \in QueryResults(store.docs, bodyEmbedding) :
            r.metadatas = << <<scraped>> >>

====
